---- MODULE Spec2Model ----
(***************************************************************************)
(* Model of the RAG chatbot backend (src/main.py, src/backend_utils.py):   *)
(* the /upload handler with its batched ingestion into a session namespace *)
(* of the vector index, and the /ask handler with retrieval and the three  *)
(* candidate generations.                                                   *)
(*                                                                         *)
(* External services are the environment: the embedding call, each upsert  *)
(* call, the query call and each generation call either return or raise.   *)
(* Which of them raise is an input of the request (its fault plan).        *)
(***************************************************************************)
EXTENDS Integers, Sequences, FiniteSets, Bags, TLC

VARIABLES
    index,      \* the vector index: namespace -> set of vector records
    nuploads,   \* number of upload requests handled so far
    nasks,      \* number of ask requests handled so far
    req,        \* the most recent request, with the faults the services showed
    resp,       \* the HTTP response of the most recent request
    log,        \* what the most recent request did, call by call
    upserted,   \* history: the bag of upsert calls that succeeded so far
    st,         \* the frontend's st.session_state
    uuids,      \* number of uuid4() calls the frontend made so far
    nchats,     \* number of chat inputs the frontend handled so far
    ui          \* history: what the frontend's most recent handler sent and got

backend == <<index, nuploads, nasks, req, resp, log, upserted>>
front == <<st, uuids, nchats, ui>>
vars == <<index, nuploads, nasks, req, resp, log, upserted, st, uuids, nchats, ui>>

----------------------------------------------------------------------------
(* Bounds of the model *)

\* upload requests in one run
MaxUploads == 2
\* ask requests in one run
MaxAsks == 1
\* files in one upload request
MaxFiles == 2
\* chat inputs in one run
MaxChats == 2

(* Program constants *)

\* backend_utils.py: batch_size = 100
batch_size == 100
\* main.py: index.query(..., top_k=10, ...)
top_k == 10
\* main.py: for temp in [0.2, 0.7, 1.0], in tenths
Temperatures == <<2, 7, 10>>

----------------------------------------------------------------------------
(* Inputs *)

Sessions == {"S1", "S2"}
\* Python / JSON values, tagged with their type
None == [t |-> "None"]
Str(v) == [t |-> "str", v |-> v]
Num(v) == [t |-> "int", v |-> v]
List(v) == [t |-> "list", v |-> v]
Dict(v) == [t |-> "dict", v |-> v]

\* Document texts, by the number of chunks the splitter cuts them into.
ChunkCount(text) ==
    CASE text = "long"  -> 2 * batch_size + batch_size \div 2
      [] text = "short" -> 1
      [] text = ""      -> 0

\* The files a client may send: name and extracted text.
SmallFiles ==
    { [filename |-> "a.pdf", text |-> "short"],
      [filename |-> "b.txt", text |-> "short"],
      [filename |-> "b.txt", text |-> ""],
      [filename |-> "c.exe", text |-> "short"] }

\* the same, but a.pdf is a document of several batches
FileInputs ==
    { [filename |-> "a.pdf", text |-> "long"],
      [filename |-> "b.txt", text |-> "short"],
      [filename |-> "b.txt", text |-> ""],
      [filename |-> "c.exe", text |-> "short"] }

Range(s) == { s[k] : k \in 1..Len(s) }
Min(a, b) == IF a < b THEN a ELSE b

----------------------------------------------------------------------------
(* backend_utils.py *)

\* os.path.splitext(file.filename)[1].lower()
file_extension(filename) ==
    CASE filename = "a.pdf" -> ".pdf"
      [] filename = "b.txt" -> ".txt"
      [] filename = "c.exe" -> ".exe"

\* get_text_from_file: None for an extension no loader handles
get_text_from_file(file) ==
    IF file_extension(file.filename) \in {".pdf", ".docx", ".txt", ".csv", ".xls", ".xlsx"}
    THEN Str(file.text)
    ELSE None

\* get_text_chunks: the chunk sequence of a text; empty text, no chunks
get_text_chunks(raw_text) ==
    [k \in 1..ChunkCount(raw_text) |-> <<raw_text, k>>]

\* (mutant) an identifier that is new with every upload request
ChunkIdPerUpload(filename, i) == <<"chunk", filename, i + 1000 * nuploads>>

\* f"chunk_{filename}_{i}"
ChunkId(filename, i) == <<"chunk", filename, i>>

\* the list comprehension building vectors_to_upsert (i counts from 0)
vectors_to_upsert(text_chunks, filename) ==
    [k \in 1..Len(text_chunks) |->
        [id |-> ChunkId(filename, k - 1),
         metadata |-> [text |-> text_chunks[k], filename |-> filename]]]

\* pc_index.upsert(vectors=batch, namespace=namespace): a record with a known
\* id replaces the old one
upsert(idx, batch, namespace) ==
    LET ids == { batch[k].id : k \in 1..Len(batch) }
    IN [idx EXCEPT ![namespace] =
            { r \in @ : r.id \notin ids } \cup Range(batch)]

\* (mutant) the batch loop without its try block: the first upsert that raises
\* ends the loop
RECURSIVE UpsertBatchesNoTry(_, _, _, _, _, _)
UpsertBatchesNoTry(idx, vectors, namespace, i, failing, calls) ==
    IF i >= Len(vectors) THEN [index |-> idx, calls |-> calls]
    ELSE LET batch == SubSeq(vectors, i + 1, Min(i + batch_size, Len(vectors)))
             num   == (i \div batch_size) + 1
             ok    == num \notin failing
             call  == [namespace |-> namespace, first |-> i, size |-> Len(batch),
                       ok |-> ok]
         IN IF ok
            THEN UpsertBatchesNoTry(upsert(idx, batch, namespace), vectors, namespace,
                                    i + batch_size, failing, Append(calls, call))
            ELSE [index |-> idx, calls |-> Append(calls, call)]

\* the batch loop of create_and_store_embeddings from offset i on; failing is
\* the set of batch numbers whose upsert raises
RECURSIVE UpsertBatches(_, _, _, _, _, _)
UpsertBatches(idx, vectors, namespace, i, failing, calls) ==
    IF i >= Len(vectors) THEN [index |-> idx, calls |-> calls]
    ELSE LET batch == SubSeq(vectors, i + 1, Min(i + batch_size, Len(vectors)))
             num   == (i \div batch_size) + 1
             ok    == num \notin failing
         IN UpsertBatches(IF ok THEN upsert(idx, batch, namespace) ELSE idx,
                          vectors, namespace, i + batch_size, failing,
                          Append(calls, [namespace |-> namespace,
                                         first |-> i, size |-> Len(batch),
                                         ok |-> ok]))

\* create_and_store_embeddings: raises when embed_documents raises, else runs
\* the batch loop and returns None
create_and_store_embeddings(idx, text_chunks, namespace, filename, fault) ==
    IF fault.embed_fails
    THEN [index |-> idx, raised |-> TRUE, calls |-> <<>>, returned |-> None]
    ELSE LET r == UpsertBatches(idx, vectors_to_upsert(text_chunks, filename),
                                namespace, 0, fault.failing, <<>>)
         IN [index |-> r.index, raised |-> FALSE, calls |-> r.calls,
             returned |-> None]

----------------------------------------------------------------------------
(* The environment of an upload: which service calls raise *)

NumBatches(n) == (n + batch_size - 1) \div batch_size

NoFault == [embed_fails |-> FALSE, failing |-> {}]

\* the faults one file's ingestion can meet
FaultsFor(file) ==
    IF get_text_from_file(file) = None THEN { NoFault }
    ELSE { [embed_fails |-> TRUE, failing |-> {}] } \cup
         { [embed_fails |-> FALSE, failing |-> F] :
             F \in SUBSET (1..NumBatches(ChunkCount(file.text))) }

\* one fault per file; files after a raising embedding are never reached
RECURSIVE FaultPlans(_, _)
FaultPlans(files, k) ==
    IF k > Len(files) THEN { <<>> }
    ELSE UNION { IF f.embed_fails
                 THEN { <<f>> \o [j \in 1..(Len(files) - k) |-> NoFault] }
                 ELSE { <<f>> \o p : p \in FaultPlans(files, k + 1) }
               : f \in FaultsFor(files[k]) }

\* the lists of at most n files over F
RECURSIVE FileLists(_, _)
FileLists(F, n) ==
    IF n = 0 THEN { <<>> }
    ELSE FileLists(F, n - 1) \cup
         { Append(fs, f) : fs \in { l \in FileLists(F, n - 1) : Len(l) = n - 1 },
                           f \in F }

----------------------------------------------------------------------------
(* main.py: POST /upload *)

\* the for loop of upload_documents from file k on, inside its try block
RECURSIVE UploadLoop(_, _, _, _, _, _, _)
UploadLoop(idx, files, session_id, faults, k, processed_files, entries) ==
    IF k > Len(files)
    THEN [index |-> idx, raised |-> FALSE,
          processed_files |-> processed_files, log |-> entries]
    ELSE LET file == files[k]
             raw_text == get_text_from_file(file)
         IN IF raw_text = None
            THEN UploadLoop(idx, files, session_id, faults, k + 1, processed_files,
                            Append(entries, [file |-> file,
                                             outcome |-> "skipped", chunks |-> 0,
                                             calls |-> <<>>, returned |-> None]))
            ELSE LET text_chunks == get_text_chunks(raw_text.v)
                     r == create_and_store_embeddings(idx, text_chunks, session_id,
                                                      file.filename, faults[k])
                     entry == [file |-> file,
                               outcome |-> IF r.raised THEN "raised" ELSE "ingested",
                               chunks |-> Len(text_chunks),
                               calls |-> r.calls, returned |-> r.returned]
                 IN IF r.raised
                    THEN [index |-> r.index, raised |-> TRUE,
                          processed_files |-> processed_files,
                          log |-> Append(entries, entry)]
                    ELSE UploadLoop(r.index, files, session_id, faults, k + 1,
                                    Append(processed_files, file.filename),
                                    Append(entries, entry))

\* the upsert calls of a request's log that succeeded, each with its file
RECURSIVE OkCalls(_, _, _)
OkCalls(entries, k, j) ==
    IF k > Len(entries) THEN EmptyBag
    ELSE IF j > Len(entries[k].calls) THEN OkCalls(entries, k + 1, 1)
    ELSE LET c == entries[k].calls[j]
         IN IF c.ok
            THEN SetToBag({ [namespace |-> c.namespace, file |-> entries[k].file,
                             first |-> c.first, size |-> c.size] })
                 (+) OkCalls(entries, k, j + 1)
            ELSE OkCalls(entries, k, j + 1)

\* upload_documents(files, session_id)
upload_documents(files, session_id, faults) ==
    /\ nuploads < MaxUploads
    /\ nuploads' = nuploads + 1
    /\ UNCHANGED nasks
    /\ req' = [kind |-> "upload", files |-> files, session_id |-> session_id,
               faults |-> faults]
    /\ IF files = <<>> \/ session_id = ""
       THEN /\ resp' = [status |-> 400,
                        error |-> "A session ID and at least one file are required."]
            /\ log' = <<>>
            /\ UNCHANGED <<index, upserted>>
       ELSE \E r \in { UploadLoop(index, files, session_id, faults, 1, <<>>, <<>>) } :
               /\ index' = r.index
               /\ log' = r.log
               /\ upserted' = upserted (+) OkCalls(r.log, 1, 1)
               /\ resp' = IF r.raised
                          THEN [status |-> 500,
                                error |-> "An error occurred during upload"]
                          ELSE [status |-> 200,
                                message |-> <<"Successfully processed",
                                              Len(r.processed_files), "files.">>,
                                processed_files |-> r.processed_files]

\* the fault plans of a request: none is consulted when it is rejected
PlansFor(files, session_id) ==
    IF files = <<>> \/ session_id = ""
    THEN { [j \in 1..Len(files) |-> NoFault] }
    ELSE FaultPlans(files, 1)

\* an upload of up to MaxFiles small files, any service call failing
UploadMany ==
    \E files \in FileLists(SmallFiles, MaxFiles), session_id \in Sessions \cup {""} :
        \E faults \in PlansFor(files, session_id) :
            upload_documents(files, session_id, faults) /\ UNCHANGED front

\* an upload of one file, any service call failing
UploadOne ==
    \E f \in FileInputs, session_id \in Sessions :
        \E faults \in FaultPlans(<<f>>, 1) :
            upload_documents(<<f>>, session_id, faults) /\ UNCHANGED front

\* an upload of one one-chunk file, every service call succeeding
UploadPlain ==
    \E session_id \in Sessions :
        /\ upload_documents(<<[filename |-> "b.txt", text |-> "short"]>>,
                            session_id, <<NoFault>>)
        /\ UNCHANGED front

----------------------------------------------------------------------------
(* The generator's raw outputs and json.loads *)

RawMalformed == "{answer: "
RawArray     == "[1]"
RawString    == "\"text\""
RawNumber    == "7"
RawNull      == "null"
RawEmpty     == "{}"
RawNoContext == "{\"answer\":{\"summary\":\"s\",\"data\":null},\"reasoning\":\"r\",\"source_documents\":[]}"
RawGrounded  == "{\"answer\":{\"summary\":\"s\",\"data\":{\"k\":1}},\"reasoning\":\"r\",\"source_documents\":[\"b.txt\"]}"

RawOutputs == { RawMalformed, RawArray, RawString, RawNumber, RawNull,
                RawEmpty, RawNoContext, RawGrounded }

\* json.loads(s): the value, or JSONDecodeError
json_loads(raw) ==
    CASE raw = RawArray  -> [ok |-> TRUE, value |-> List(<<Num(1)>>)]
      [] raw = RawString -> [ok |-> TRUE, value |-> Str("text")]
      [] raw = RawNumber -> [ok |-> TRUE, value |-> Num(7)]
      [] raw = RawNull   -> [ok |-> TRUE, value |-> None]
      [] raw = RawEmpty  -> [ok |-> TRUE, value |-> Dict(<<>>)]
      [] raw = RawNoContext ->
            [ok |-> TRUE,
             value |-> Dict([answer |-> Dict([summary |-> Str("s"), data |-> None]),
                             reasoning |-> Str("r"),
                             source_documents |-> List(<<>>)])]
      [] raw = RawGrounded ->
            [ok |-> TRUE,
             value |-> Dict([answer |-> Dict([summary |-> Str("s"),
                                              data |-> Dict([k |-> Num(1)])]),
                             reasoning |-> Str("r"),
                             source_documents |-> List(<<Str("b.txt")>>)])]
      [] OTHER -> [ok |-> FALSE, error |-> "JSONDecodeError"]

\* d.get(key, default) on a dict
dict_get(d, key, default) == IF key \in DOMAIN d.v THEN d.v[key] ELSE default

----------------------------------------------------------------------------
(* main.py: POST /ask *)

\* similarity of a record to the query vector, as a distance: the service
\* ranks the records of the namespace by it
Distance(question, r) == r.id[3]

\* index.query(vector, top_k, include_metadata=True, namespace): the k nearest
\* records of that namespace, nearest first
RECURSIVE Nearest(_, _, _)
Nearest(S, question, k) ==
    IF k = 0 \/ S = {} THEN <<>>
    ELSE LET m == CHOOSE r \in S :
                    \A o \in S : Distance(question, r) <= Distance(question, o)
         IN <<m>> \o Nearest(S \ {m}, question, k - 1)

\* (mutant) the query without its namespace argument: the whole index
queryAllNamespaces(idx, question, k, namespace) ==
    Nearest(UNION { idx[s] : s \in Sessions }, question, k)

query(idx, question, k, namespace) == Nearest(idx[namespace], question, k)

\* sources: content and filename of every match
SourcesOf(matches) ==
    [k \in 1..Len(matches) |->
        [content |-> matches[k].metadata.text,
         filename |-> matches[k].metadata.filename]]

\* (mutant) the try block without its except clause: a JSONDecodeError leaves
\* the loop like any other fault
CandidateNoExcept(llm_output_str) ==
    LET parsed == json_loads(llm_output_str)
    IN IF ~parsed.ok \/ parsed.value.t # "dict"
       THEN [raised |-> TRUE, candidate |-> None]
       ELSE [raised |-> FALSE,
             candidate |->
               [answer |-> dict_get(parsed.value, "answer",
                               Dict([summary |-> Str("Could not parse answer."),
                                     data |-> None])),
                reasoning |-> dict_get(parsed.value, "reasoning",
                                       Str("Could not parse reasoning.")),
                source_documents |-> dict_get(parsed.value, "source_documents",
                                              List(<<>>))]]

\* the candidate built from one raw output: the try block around json.loads.
\* A value that is no dict has no get: AttributeError, which the inner except
\* clause does not name
Candidate(llm_output_str) ==
    LET parsed == json_loads(llm_output_str)
    IN IF ~parsed.ok
       THEN [raised |-> FALSE,
             candidate |->
               [answer |-> Dict([summary |-> Str("The model returned an invalid JSON response."),
                                 data |-> Str(llm_output_str)]),
                reasoning |-> Str("The model's output could not be parsed as JSON."),
                source_documents |-> List(<<>>)]]
       ELSE IF parsed.value.t # "dict"
       THEN [raised |-> TRUE, candidate |-> None]
       ELSE LET response_data == parsed.value
            IN [raised |-> FALSE,
                candidate |->
                  [answer |-> dict_get(response_data, "answer",
                                  Dict([summary |-> Str("Could not parse answer."),
                                        data |-> None])),
                   reasoning |-> dict_get(response_data, "reasoning",
                                          Str("Could not parse reasoning.")),
                   source_documents |-> dict_get(response_data, "source_documents",
                                                 List(<<>>))]]

\* the for loop over the temperatures from position k on; gen[k] is what the
\* k-th generation call does
RECURSIVE GenerateLoop(_, _, _, _, _)
GenerateLoop(k, gen, prompt, candidates, calls) ==
    IF k > Len(Temperatures)
    THEN [raised |-> FALSE, candidates |-> candidates, calls |-> calls]
    ELSE LET call == [temperature |-> Temperatures[k], prompt |-> prompt,
                      outcome |-> gen[k]]
         IN IF gen[k].raises
            THEN [raised |-> TRUE, candidates |-> candidates,
                  calls |-> Append(calls, call)]
            ELSE LET c == Candidate(gen[k].output)
                 IN IF c.raised
                    THEN [raised |-> TRUE, candidates |-> candidates,
                          calls |-> Append(calls, call)]
                    ELSE GenerateLoop(k + 1, gen, prompt,
                                      Append(candidates, c.candidate),
                                      Append(calls, call))

ServerError == [status |-> 500, error |-> "An error occurred"]

\* the try block of ask_question once the query embedding is there: retrieval,
\* prompt selection, the three generations
Answer(idx, question, session_id, gen) ==
    LET matches == query(idx, question, top_k, session_id)
        prompt  == IF matches = <<>> THEN "no_context_prompt" ELSE "rag_prompt"
        g       == GenerateLoop(1, gen, prompt, <<>>, <<>>)
    IN [matches |-> matches, sources |-> SourcesOf(matches), prompt |-> prompt,
        raised |-> g.raised, candidates |-> g.candidates, calls |-> g.calls]

\* ask_question(question, session_id); env says which service calls raise and
\* what the generator puts out
ask_question(question, session_id, env) ==
    /\ nasks < MaxAsks
    /\ nasks' = nasks + 1
    /\ UNCHANGED <<nuploads, index, upserted>>
    /\ req' = [kind |-> "ask", question |-> question, session_id |-> session_id,
               env |-> env]
    /\ IF question = "" \/ session_id = ""
       THEN /\ resp' = [status |-> 400,
                        error |-> "Question and session_id are required."]
            /\ log' = [retrieved |-> FALSE]
       ELSE IF env.retrieval # "ok"
       THEN /\ resp' = ServerError
            /\ log' = [retrieved |-> FALSE]
       ELSE \E r \in { Answer(index, question, session_id, env.gen) } :
               /\ log' = [retrieved |-> TRUE, matches |-> r.matches,
                          prompt |-> r.prompt, calls |-> r.calls]
               /\ resp' = IF r.raised THEN ServerError
                          ELSE [status |-> 200, candidates |-> r.candidates,
                                sources |-> r.sources]

GenRaises == [raises |-> TRUE]
GenReturns(raw) == [raises |-> FALSE, output |-> raw]
GenOutcomes == { GenRaises } \cup { GenReturns(raw) : raw \in RawOutputs }

Questions == { "What is the total revenue?" }

\* an outcome that ends the loop: the call raises, or its output is JSON but
\* no object
EndsLoop(o) == o.raises \/ Candidate(o.output).raised

\* what the generation calls from position k on do, over the outcomes in O;
\* calls after the one that ends the loop are never made
RECURSIVE GenPlans(_, _)
GenPlans(O, k) ==
    IF k > Len(Temperatures) THEN { <<>> }
    ELSE UNION { IF EndsLoop(o)
                 THEN { <<o>> \o [j \in 1..(Len(Temperatures) - k) |-> GenRaises] }
                 ELSE { <<o>> \o p : p \in GenPlans(O, k + 1) }
               : o \in O }

\* the environments of an ask over the generation outcomes in O
AskEnvs(O) ==
    { [retrieval |-> "ok", gen |-> g] : g \in GenPlans(O, 1) } \cup
    { [retrieval |-> r, gen |-> [k \in 1..Len(Temperatures) |-> GenRaises]] :
        r \in {"embed_query raises", "query raises"} }

AskBad ==
    \E question \in Questions \cup {""}, session_id \in Sessions \cup {""} :
        /\ question = "" \/ session_id = ""
        /\ ask_question(question, session_id,
                        [retrieval |-> "ok",
                         gen |-> [k \in 1..Len(Temperatures) |-> GenRaises]])
        /\ UNCHANGED front

\* an ask, the generator free to put out anything or to fail
Ask ==
    \/ AskBad
    \/ \E question \in Questions, session_id \in Sessions :
         \E env \in AskEnvs(GenOutcomes) :
            ask_question(question, session_id, env) /\ UNCHANGED front

\* an ask whose service calls all succeed, the generator putting out objects
AskPlain ==
    \E question \in Questions, session_id \in Sessions :
        /\ ask_question(question, session_id,
                        [retrieval |-> "ok",
                         gen |-> [k \in 1..Len(Temperatures) |-> GenReturns(RawGrounded)]])
        /\ UNCHANGED front

----------------------------------------------------------------------------
(* frontend_utils.py and app.py: the Streamlit frontend *)

\* str(uuid.uuid4()): the n-th call returns a value no earlier call returned
UuidNames == <<"u1", "u2", "u3", "u4", "u5", "u6">>
uuid4(n) == UuidNames[n]

\* the namespaces the index is asked for
Namespaces == Sessions \cup Range(UuidNames)

Hello ==
    [role |-> "assistant",
     content |-> "Hello! Please upload one or more documents to start a new chat session."]
Finished ==
    [role |-> "assistant",
     content |-> "I've finished reading your documents. What would you like to know?"]

\* init_session_state on a fresh st.session_state
init_session_state ==
    [session_id |-> uuid4(1), messages |-> <<Hello>>, processed_files |-> <<>>]

\* requests.post raising a RequestException
RequestException == [status |-> 0, error |-> "RequestException"]
\* what the network does to a request: it goes through, it never reaches the
\* backend, or the backend handles it and the response is lost
Nets == {"ok", "refused", "lost"}

\* the truth value Python gives a response body or None
IsTruthy(v) == v # None /\ DOMAIN v # {}

\* response.json(): the body without the status code
response_json(response) ==
    [k \in DOMAIN response \ {"status"} |-> response[k]]

\* (mutant) call_upload_api handing back the session id of st.session_state
\* with a 200 response too
call_upload_apiKeepsId(new_session_id, received, state) ==
    IF received = RequestException THEN <<None, state.session_id>>
    ELSE IF received.status = 200
    THEN <<response_json(received), state.session_id>>
    ELSE <<None, state.session_id>>

\* call_upload_api once requests.post returned or raised: (response_data,
\* session id)
call_upload_api(new_session_id, received, state) ==
    IF received = RequestException THEN <<None, state.session_id>>
    ELSE IF received.status = 200
    THEN <<response_json(received), new_session_id>>
    ELSE <<None, state.session_id>>

\* call_ask_api once requests.post returned or raised: response_data
call_ask_api(received) ==
    IF received = RequestException THEN None
    ELSE IF received.status = 200 THEN response_json(received)
    ELSE None

\* handle_file_upload(uploaded_files) with call_upload_api: a fresh session
\* id, the POST /upload, and the update of st.session_state
handle_file_upload(uploaded_files, faults, net) ==
    /\ uuids <= MaxUploads
    /\ uuids' = uuids + 1
    /\ UNCHANGED nchats
    /\ \E new_session_id \in { uuid4(uuids + 1) } :
         /\ IF net = "refused"
            THEN UNCHANGED backend
            ELSE upload_documents(uploaded_files, new_session_id, faults)
         /\ \E received \in { IF net = "ok" THEN resp' ELSE RequestException } :
              \E r \in { call_upload_api(new_session_id, received, st) } :
                 /\ st' = IF IsTruthy(r[1])
                          THEN [session_id |-> r[2],
                                processed_files |->
                                    IF "processed_files" \in DOMAIN r[1]
                                    THEN r[1].processed_files ELSE <<>>,
                                messages |-> <<Finished>>]
                          ELSE st
                 /\ ui' = [op |-> "upload", sent |-> new_session_id,
                           received |-> received.status,
                           ok_id |-> IF received.status = 200
                                     THEN new_session_id ELSE ui.ok_id]

\* the chat_input handler of app.py with call_ask_api
chat_input(prompt, env, net) ==
    /\ nchats < MaxChats
    /\ nchats' = nchats + 1
    /\ UNCHANGED uuids
    /\ IF st.processed_files = <<>>
       THEN /\ UNCHANGED <<backend, st>>
            /\ ui' = [op |-> "warning", sent |-> "", received |-> 0,
                      ok_id |-> ui.ok_id]
       ELSE /\ IF net = "refused"
               THEN UNCHANGED backend
               ELSE ask_question(prompt, st.session_id, env)
            /\ \E received \in { IF net = "ok" THEN resp' ELSE RequestException } :
                 \E response_data \in { call_ask_api(received) } :
                    /\ st' = [st EXCEPT !.messages =
                                Append(@, [role |-> "user", content |-> prompt]) \o
                                (IF IsTruthy(response_data)
                                 THEN << [role |-> "assistant",
                                          candidates |-> response_data.candidates,
                                          sources |-> response_data.sources] >>
                                 ELSE <<>>)]
                    /\ ui' = [op |-> "ask", sent |-> st.session_id,
                              received |-> received.status, ok_id |-> ui.ok_id]

\* what st.file_uploader lets through: its type filter, at least one file
FrontUploads ==
    { fs \in { << [filename |-> "a.pdf", text |-> "short"] >>,
               << [filename |-> "b.txt", text |-> "short"],
                  [filename |-> "a.pdf", text |-> "short"] >> } :
        \A k \in 1..Len(fs) :
            file_extension(fs[k].filename) \in {".pdf", ".docx", ".txt", ".csv", ".xlsx"} }

\* the services during an upload: all calls return, or the embedding of the
\* first file raises
FrontFaults(files) ==
    { [k \in 1..Len(files) |-> NoFault],
      [k \in 1..Len(files) |->
          IF k = 1 THEN [embed_fails |-> TRUE, failing |-> {}] ELSE NoFault] }

\* the services during an ask: all calls return objects, or the query raises
FrontEnvs ==
    { [retrieval |-> r,
       gen |-> [k \in 1..Len(Temperatures) |-> GenReturns(RawGrounded)]] :
        r \in {"ok", "query raises"} }

\* the "Process Files" button
ProcessFiles ==
    \E uploaded_files \in FrontUploads, net \in Nets :
        \E faults \in FrontFaults(uploaded_files) :
            handle_file_upload(uploaded_files, faults, net)

\* a prompt typed into the chat input
ChatInput ==
    \E prompt \in Questions, net \in Nets :
        \E env \in FrontEnvs :
            chat_input(prompt, env, net)

----------------------------------------------------------------------------
Init ==
    /\ index = [s \in Sessions |-> {}]
    /\ nuploads = 0
    /\ nasks = 0
    /\ req = [kind |-> "none"]
    /\ resp = [status |-> 0]
    /\ log = <<>>
    /\ upserted = EmptyBag
    /\ st = init_session_state
    /\ uuids = 1
    /\ nchats = 0
    /\ ui = [op |-> "none", sent |-> "", received |-> 0, ok_id |-> ""]

\* single-file uploads under every fault plan, plain asks
Next == UploadOne \/ AskPlain
Spec == Init /\ [][Next]_vars

\* uploads of several small files under every fault plan, plain asks
NextMany == UploadMany \/ AskPlain
SpecMany == Init /\ [][NextMany]_vars

\* plain uploads, asks under every generator behaviour
NextAsk == UploadPlain \/ Ask
SpecAsk == Init /\ [][NextAsk]_vars

\* the frontend in front of the backend: the index has the namespaces of the
\* session ids the frontend generates
InitFront ==
    /\ index = [s \in Namespaces |-> {}]
    /\ nuploads = 0
    /\ nasks = 0
    /\ req = [kind |-> "none"]
    /\ resp = [status |-> 0]
    /\ log = <<>>
    /\ upserted = EmptyBag
    /\ st = init_session_state
    /\ uuids = 1
    /\ nchats = 0
    /\ ui = [op |-> "none", sent |-> "", received |-> 0, ok_id |-> ""]
NextFront == ProcessFiles \/ ChatInput
SpecFront == InitFront /\ [][NextFront]_vars

----------------------------------------------------------------------------
(* Claims *)

IsUpload == req.kind = "upload" /\ resp.status # 400

\* the chunks the upsert calls of one ingestion stored
RECURSIVE StoredCount(_)
StoredCount(calls) ==
    IF calls = <<>> THEN 0
    ELSE (IF Head(calls).ok THEN Head(calls).size ELSE 0) + StoredCount(Tail(calls))

\* the vector record of chunk i (from 0) of a file, as the source builds it
VectorOf(file, i) ==
    [id |-> <<"chunk", file.filename, i>>,
     metadata |-> [text |-> <<file.text, i + 1>>, filename |-> file.filename]]

\* chunk i is in a slice that one of the calls stored
IsStored(calls, i) ==
    \E j \in 1..Len(calls) :
        /\ calls[j].ok
        /\ calls[j].first <= i
        /\ i < calls[j].first + calls[j].size

\* C1: every ingestion call reports to its caller the number of chunks it
\* stored, the total size of the upsert batches that succeeded
C1_ReportsStoredCount ==
    IsUpload =>
        \A k \in 1..Len(log) :
            log[k].outcome = "ingested" =>
                log[k].returned = Num(StoredCount(log[k].calls))

\* C2: the ingestion of an n-chunk file makes ceil(n/100) upsert calls, of
\* consecutive slices of at most 100 records in chunk order; the calls that fail
\* are exactly the ones the service refused, every later call is still made, and
\* afterwards the namespace holds the records of the slices that succeeded, in
\* place of any older record with the same identifier, and nothing else changed
C2_Step ==
    (req'.kind = "upload" /\ resp'.status # 400 /\ log'[1].outcome = "ingested") =>
        LET file    == log'[1].file
            calls   == log'[1].calls
            n       == ChunkCount(file.text)
            ns      == req'.session_id
            failing == req'.faults[1].failing
            new     == { VectorOf(file, i) : i \in { c \in 0..(n - 1) : IsStored(calls, c) } }
        IN /\ (Len(calls) - 1) * 100 < n
           /\ n <= Len(calls) * 100
           /\ \A j \in 1..Len(calls) :
                /\ calls[j].first = (j - 1) * 100
                /\ calls[j].size = Min(100, n - calls[j].first)
                /\ calls[j].namespace = ns
                /\ calls[j].ok <=> j \notin failing
           /\ index'[ns] = new \cup
                { r \in index[ns] :
                    ~(r.id[2] = file.filename /\ IsStored(calls, r.id[3])) }
           /\ \A other \in Sessions \ {ns} : index'[other] = index[other]

C2_BatchedUpsert == [][C2_Step]_vars

\* a 250-chunk file went into an empty namespace in batches of 100, 100 and 50,
\* the second of which failed
C2_Witness ==
    /\ IsUpload
    /\ log[1].outcome = "ingested"
    /\ log[1].file.text = "long"
    /\ [j \in 1..Len(log[1].calls) |-> log[1].calls[j].size] = <<100, 100, 50>>
    /\ [j \in 1..Len(log[1].calls) |-> log[1].calls[j].ok] = <<TRUE, FALSE, TRUE>>
    /\ Cardinality(index[req.session_id]) = 150

IsAnswer == req.kind = "ask" /\ log.retrieved

\* record m is one of the records upsert call c stored
InCall(m, c) ==
    /\ c.first <= m.id[3]
    /\ m.id[3] < c.first + c.size
    /\ m = VectorOf(c.file, m.id[3])

UpsertedUnder(namespace) == { c \in BagToSet(upserted) : c.namespace = namespace }

\* C3: the retrieval of an ask under a session returns at most top_k records,
\* each one stored by an upsert call made under that session's namespace, and
\* the sources of the response are these records; under a session nothing was
\* upserted for, the retrieval is empty
C3_NamespaceIsolation ==
    IsAnswer =>
        /\ Len(log.matches) <= 10
        /\ \A k \in 1..Len(log.matches) :
              \E c \in UpsertedUnder(req.session_id) : InCall(log.matches[k], c)
        /\ UpsertedUnder(req.session_id) = {} => log.matches = <<>>
        /\ resp.status = 200 =>
              resp.sources = [k \in 1..Len(log.matches) |->
                                [content |-> log.matches[k].metadata.text,
                                 filename |-> log.matches[k].metadata.filename]]

\* an ask under S2, which has no uploads, after a.pdf went into S1: nothing
\* is retrieved
C3_Witness ==
    /\ IsAnswer
    /\ req.session_id = "S2"
    /\ UpsertedUnder("S2") = {}
    /\ \E r \in index["S1"] : r.metadata.filename = "a.pdf"
    /\ log.matches = <<>>
    /\ resp.status = 200
    /\ resp.sources = <<>>

Ids(records) == { r.id : r \in records }

\* every upsert call of the request succeeded, and the embedding before it
AllStored(rq, rs, lg) ==
    /\ rq.kind = "upload"
    /\ rs.status = 200
    /\ \A k \in 1..Len(lg) :
          /\ lg[k].outcome = "ingested"
          /\ \A j \in 1..Len(lg[k].calls) : lg[k].calls[j].ok

\* C4: an upload that repeats the upload before it (same session, same file
\* name and content), all upserts of both succeeding, leaves the namespace with
\* the identifiers it had after the first, and as many records
C4_Step ==
    (/\ AllStored(req, resp, log)
     /\ AllStored(req', resp', log')
     /\ req'.files = req.files
     /\ req'.session_id = req.session_id) =>
        /\ Ids(index'[req.session_id]) = Ids(index[req.session_id])
        /\ Cardinality(index'[req.session_id]) = Cardinality(index[req.session_id])

C4_ReingestIdempotent == [][C4_Step]_vars

\* a.pdf, 250 chunks, went into S1 twice, all six upserts succeeding: S1 holds
\* 250 records
C4_Witness ==
    /\ nuploads = 2
    /\ AllStored(req, resp, log)
    /\ req.session_id = "S1"
    /\ req.files = <<[filename |-> "a.pdf", text |-> "long"]>>
    /\ \A c \in UpsertedUnder("S1") : CopiesIn(c, upserted) = 2
    /\ Cardinality(UpsertedUnder("S1")) = 3
    /\ Cardinality(Ids(index["S1"])) = 250
    /\ Cardinality(index["S1"]) = 250

\* the sentinel candidate for a raw output
Sentinel(raw) ==
    [answer |-> Dict([summary |-> Str("The model returned an invalid JSON response."),
                      data |-> Str(raw)]),
     reasoning |-> Str("The model's output could not be parsed as JSON."),
     source_documents |-> List(<<>>)]

Returned(call) == ~call.outcome.raises
Malformed(call) == Returned(call) /\ ~json_loads(call.outcome.output).ok
IsObject(call) ==
    /\ Returned(call)
    /\ json_loads(call.outcome.output).ok
    /\ json_loads(call.outcome.output).value.t = "dict"
WrongShape(call) ==
    /\ Returned(call)
    /\ json_loads(call.outcome.output).ok
    /\ json_loads(call.outcome.output).value.t # "dict"

\* the candidate an object output yields: its three keys, defaults for the
\* missing ones
FromObject(raw) ==
    LET d == json_loads(raw).value.v
    IN [answer |-> IF "answer" \in DOMAIN d THEN d.answer
                   ELSE Dict([summary |-> Str("Could not parse answer."),
                              data |-> None]),
        reasoning |-> IF "reasoning" \in DOMAIN d THEN d.reasoning
                      ELSE Str("Could not parse reasoning."),
        source_documents |-> IF "source_documents" \in DOMAIN d
                             THEN d.source_documents ELSE List(<<>>)]

\* C5: a generation call that raises degrades only its own candidate: the
\* request still answers 200 with 3 candidates, the failed one a sentinel
C5_GenerationFailureIsolated ==
    (IsAnswer /\ \E k \in 1..Len(log.calls) : ~Returned(log.calls[k])) =>
        /\ resp.status = 200
        /\ Len(resp.candidates) = 3
        /\ \A k \in 1..Len(log.calls) :
              ~Returned(log.calls[k]) =>
                  resp.candidates[k].answer.v.summary =
                      Str("The model returned an invalid JSON response.")

\* C6: when every generation call returns and no output is JSON of another
\* shape than an object, the request answers 200 with 3 candidates, one per
\* temperature in the order 0.2, 0.7, 1.0; the candidate of an output that is
\* not parseable JSON is exactly the sentinel with that raw output as data, and
\* every other candidate is built from its own output
C6_MalformedIsSentinel ==
    (IsAnswer /\ \A k \in 1..Len(log.calls) :
                    Malformed(log.calls[k]) \/ IsObject(log.calls[k])) =>
        /\ resp.status = 200
        /\ Len(resp.candidates) = 3
        /\ [k \in 1..Len(log.calls) |-> log.calls[k].temperature] = <<2, 7, 10>>
        /\ \A k \in 1..3 :
              resp.candidates[k] =
                  IF Malformed(log.calls[k])
                  THEN Sentinel(log.calls[k].outcome.output)
                  ELSE FromObject(log.calls[k].outcome.output)

\* the second of three outputs is not JSON; the first and the third are objects
C6_Witness ==
    /\ IsAnswer
    /\ Len(log.calls) = 3
    /\ IsObject(log.calls[1]) /\ Malformed(log.calls[2]) /\ IsObject(log.calls[3])
    /\ log.calls[1].outcome.output # log.calls[3].outcome.output
    /\ resp.status = 200
    /\ resp.candidates[2] = Sentinel(log.calls[2].outcome.output)
    /\ resp.candidates[1] # resp.candidates[3]

\* C7: an output that is valid JSON but no object (array, string, number,
\* null) is replaced with the sentinel candidate, and the request still
\* answers 200 with 3 candidates
C7_WrongShapeIsSentinel ==
    (/\ IsAnswer
     /\ \A k \in 1..Len(log.calls) : Returned(log.calls[k])
     /\ \E k \in 1..Len(log.calls) : WrongShape(log.calls[k])) =>
        /\ resp.status = 200
        /\ Len(resp.candidates) = 3
        /\ \A k \in 1..Len(log.calls) :
              WrongShape(log.calls[k]) =>
                  resp.candidates[k] = Sentinel(log.calls[k].outcome.output)

\* C8: in no-context mode every candidate returned has data = null and no
\* source documents, whatever the generator put out
C8_NoContextCandidates ==
    (IsAnswer /\ log.matches = <<>> /\ resp.status = 200) =>
        \A k \in 1..Len(resp.candidates) :
            /\ resp.candidates[k].answer.v.data = None
            /\ resp.candidates[k].source_documents = List(<<>>)

\* C9: in an upload of several files every file is handled, also the ones
\* after a file whose embedding or upsert failed, and what an upsert call
\* stored stays in the namespace
C9_FailureDoesNotBlock ==
    IsUpload =>
        /\ Len(log) = Len(req.files)
        /\ \A k \in 1..Len(log) :
              \A j \in 1..Len(log[k].calls) :
                  log[k].calls[j].ok =>
                      \A i \in log[k].calls[j].first ..
                               (log[k].calls[j].first + log[k].calls[j].size - 1) :
                          <<"chunk", log[k].file.filename, i>>
                              \in Ids(index[req.session_id])

\* the names of the files of the log whose ingestion stored a chunk, in order
RECURSIVE IndexedFiles(_)
IndexedFiles(entries) ==
    IF entries = <<>> THEN <<>>
    ELSE (IF Head(entries).outcome = "ingested" /\ StoredCount(Head(entries).calls) > 0
          THEN <<Head(entries).file.filename>> ELSE <<>>)
         \o IndexedFiles(Tail(entries))

\* C10: processed_files of a 200 upload response lists exactly the files that
\* were indexed: none with unsupported or empty text, each with a record in the
\* session namespace, and the message counts them
C10_ProcessedAreIndexed ==
    (IsUpload /\ resp.status = 200) =>
        /\ resp.processed_files = IndexedFiles(log)
        /\ resp.message[2] = Len(IndexedFiles(log))
        /\ \A k \in 1..Len(resp.processed_files) :
              \E r \in index[req.session_id] :
                  r.metadata.filename = resp.processed_files[k]

\* C11: every /ask the frontend issues carries the session id generated for
\* the most recent upload that returned 200, and a chat input issues an /ask
\* exactly when processed_files is not empty; an upload attempt that does not
\* return 200 (another status, or a connection error) leaves st.session_state
\* as it was, and one that returns 200 replaces session_id, processed_files
\* and messages together
C11_Step ==
    /\ (uuids' # uuids) =>
          /\ ui'.sent = uuid4(uuids')
          /\ nuploads' # nuploads => req'.session_id = uuid4(uuids')
          /\ IF ui'.received = 200
             THEN /\ st'.session_id = uuid4(uuids')
                  /\ st'.processed_files = resp'.processed_files
                  /\ st'.messages = <<Finished>>
             ELSE st' = st
    /\ (nchats' # nchats) =>
          /\ (ui'.op = "ask") <=> (st.processed_files # <<>>)
          /\ ui'.op = "ask" =>
                /\ ui'.sent = ui.ok_id
                /\ nasks' # nasks =>
                      req'.kind = "ask" /\ req'.session_id = ui.ok_id
          /\ ui'.op # "ask" => UNCHANGED backend
C11_FrontendSession == [][C11_Step]_vars

\* an upload returned 200, a second one failed, and then an /ask went out under
\* the first upload's session id and was answered
C11_Witness ==
    /\ uuids = 3
    /\ ui.op = "ask"
    /\ ui.ok_id = uuid4(2)
    /\ req.kind = "ask"
    /\ req.session_id = uuid4(2)
    /\ resp.status = 200
    /\ st.session_id = uuid4(2)
    /\ Len(st.messages) = 3

====
